---- MODULE Spec2Model ----
(***************************************************************************)
(* Model of src/main.py: the SOS-alert / reminder HTTP service.            *)
(*                                                                         *)
(* Strings are tuples of one-character strings, so that str.split,         *)
(* str.isdigit, int() and float() are computed character by character.     *)
(* Time is counted in ticks of 30 seconds; a datetime is a tick number and *)
(* isoformat()/fromisoformat() are its decimal rendering and parsing.      *)
(*                                                                         *)
(* A handler body contains no await, so handler bodies never interleave;   *)
(* the model handles one request at a time and pc is the position inside   *)
(* the handler of the request being handled.                               *)
(***************************************************************************)
EXTENDS Integers, Sequences, FiniteSets, TLC

VARIABLES
    now,          \* datetime.now(), in ticks
    sos_alerts,   \* table sos_alerts, rows in rowid order
    reminders,    \* table reminders, rows in rowid order
    pc,           \* position of the request being handled
    req,          \* the request being handled: kind, payload, validation errors
    inst,         \* the ORM instance held by the handler (sos_alert / reminder_instance)
    attempts,     \* outbound messages issued by send_sos_alert for this request
    resp,         \* the response produced for this request
    db,           \* the request's storage session: "none" or "open"
    bp_in,        \* blood-pressure string under validation
    bp_out        \* result of validate_blood_pressure on bp_in

vars == <<now, sos_alerts, reminders, pc, req, inst, attempts, resp, db, bp_in, bp_out>>

-----------------------------------------------------------------------------
(* Bounds of the model *)

MaxRows == 2
MaxContacts == 2
MaxTicks == 2
MaxPage == 2
MaxBpLen == 4
StartTime == 8

(* Program constants *)

\* timedelta(minutes=1), in ticks of 30 seconds
Minute == 2
\* max_words in validate_reminder_text
max_words == 50

-----------------------------------------------------------------------------
(* Python string primitives *)

Digits == {"0", "1", "2", "3", "4", "5", "6", "7", "8", "9"}

DigitVal(c) ==
    CASE c = "0" -> 0 [] c = "1" -> 1 [] c = "2" -> 2 [] c = "3" -> 3
      [] c = "4" -> 4 [] c = "5" -> 5 [] c = "6" -> 6 [] c = "7" -> 7
      [] c = "8" -> 8 [] c = "9" -> 9

DigitChar(d) ==
    CASE d = 0 -> "0" [] d = 1 -> "1" [] d = 2 -> "2" [] d = 3 -> "3"
      [] d = 4 -> "4" [] d = 5 -> "5" [] d = 6 -> "6" [] d = 7 -> "7"
      [] d = 8 -> "8" [] d = 9 -> "9"

\* str.isdigit(): non-empty and every character a digit
IsDigit(s) == Len(s) > 0 /\ \A i \in 1..Len(s) : s[i] \in Digits

\* int(s) for a digit string
RECURSIVE ToInt(_)
ToInt(s) ==
    IF Len(s) = 0 THEN 0
    ELSE 10 * ToInt(SubSeq(s, 1, Len(s) - 1)) + DigitVal(s[Len(s)])

\* str(n) for n >= 0
RECURSIVE ToStr(_)
ToStr(n) ==
    IF n < 10 THEN <<DigitChar(n)>>
    ELSE Append(ToStr(n \div 10), DigitChar(n % 10))

\* s.split(sep) for a one-character separator
RECURSIVE Split(_, _)
Split(s, sep) ==
    IF \A i \in 1..Len(s) : s[i] # sep THEN <<s>>
    ELSE LET i == CHOOSE k \in 1..Len(s) :
                      s[k] = sep /\ \A j \in 1..(k - 1) : s[j] # sep
         IN  <<SubSeq(s, 1, i - 1)>> \o Split(SubSeq(s, i + 1, Len(s)), sep)

\* len(s.split()): the number of maximal runs of non-blank characters
WordCount(s) ==
    Cardinality({i \in 1..Len(s) : s[i] # " " /\ (i = 1 \/ s[i - 1] = " ")})

\* s.strip()
RECURSIVE Strip(_)
Strip(s) ==
    IF Len(s) = 0 THEN s
    ELSE IF s[1] = " " THEN Strip(SubSeq(s, 2, Len(s)))
    ELSE IF s[Len(s)] = " " THEN Strip(SubSeq(s, 1, Len(s) - 1))
    ELSE s

\* float(s) for plain decimal notation: blanks stripped, an optional sign,
\* digits with at most one '.', at least one digit.  The value is m / 10^k.
ParseFloat(s) ==
    LET t    == Strip(s)
        sgn  == Len(t) > 0 /\ t[1] \in {"-", "+"}
        u    == IF sgn THEN SubSeq(t, 2, Len(t)) ELSE t
        dots == {i \in 1..Len(u) : u[i] = "."}
        digs == SelectSeq(u, LAMBDA c : c # ".")
        ok   == Cardinality(dots) <= 1 /\ IsDigit(digs)
        k    == IF dots = {} THEN 0 ELSE Len(u) - (CHOOSE i \in dots : TRUE)
        mag  == IF ok THEN ToInt(digs) ELSE 0
    IN  [ok |-> ok,
         m  |-> IF sgn /\ t[1] = "-" THEN 0 - mag ELSE mag,
         k  |-> k]

RECURSIVE Pow10(_)
Pow10(k) == IF k = 0 THEN 1 ELSE 10 * Pow10(k - 1)

\* lo <= f <= hi for a parsed float f and integers lo, hi
FloatBetween(lo, f, hi) == lo * Pow10(f.k) <= f.m /\ f.m <= hi * Pow10(f.k)

-----------------------------------------------------------------------------
(* Field validators of the request models *)

\* VitalInfo.validate_blood_pressure with indexing instead of unpacking:
\* parts[0], parts[1] are read, further parts are ignored
validate_blood_pressure_indexed(v) ==
    LET parts == Split(v, "/") IN
    IF Len(parts) < 2 THEN "IndexError"
    ELSE IF ~IsDigit(parts[1]) \/ ~IsDigit(parts[2]) THEN "ValueError"
    ELSE IF ToInt(parts[1]) <= 0 \/ ToInt(parts[2]) <= 0 THEN "ValueError"
    ELSE "ok"

\* VitalInfo.validate_blood_pressure: "ok", or the class of the exception
\* raised.  Unpacking a split of one or of three parts raises ValueError.
validate_blood_pressure(v) ==
    LET parts == Split(v, "/") IN
    IF Len(parts) # 2 THEN "ValueError"
    ELSE IF ~IsDigit(parts[1]) \/ ~IsDigit(parts[2]) THEN "ValueError"
    ELSE IF ToInt(parts[1]) <= 0 \/ ToInt(parts[2]) <= 0 THEN "ValueError"
    ELSE "ok"

\* SOSRequest.validate_gps_location
validate_gps_location(v) ==
    LET parts == Split(v, ",") IN
    IF Len(parts) # 2 THEN "ValueError"
    ELSE LET lat == ParseFloat(parts[1])
             lon == ParseFloat(parts[2])
         IN  IF ~lat.ok \/ ~lon.ok THEN "ValueError"
             ELSE IF ~FloatBetween(0 - 90, lat, 90) \/ ~FloatBetween(0 - 180, lon, 180)
                  THEN "ValueError"
             ELSE "ok"

\* SOSRequest.validate_emergency_contacts checking the part count only
validate_emergency_contacts_count_only(v) ==
    IF \A n \in 1..Len(v) : Len(Split(v[n], ":")) = 2 THEN "ok" ELSE "ValueError"

\* SOSRequest.validate_emergency_contacts
validate_emergency_contacts(v) ==
    IF \A n \in 1..Len(v) :
           LET parts == Split(v[n], ":")
           IN  ~(Len(parts) # 2 \/ ~IsDigit(parts[2]))
    THEN "ok" ELSE "ValueError"

\* SOSRequest.validate_user_id / ReminderRequest.validate_user_id
validate_user_id(v) == IF v <= 0 THEN "ValueError" ELSE "ok"

\* ReminderRequest.validate_reminder_type
allowed_types == {"Medication", "Daily Tasks", "Doctor Appointments"}

validate_reminder_type(v) == IF v \notin allowed_types THEN "ValueError" ELSE "ok"

\* ReminderRequest.validate_reminder_text
validate_reminder_text(v) ==
    IF WordCount(v) > max_words THEN "ValueError" ELSE "ok"

\* ReminderRequest.validate_reminder_time with strict comparisons
validate_reminder_time_strict(v, t) ==
    IF v < t THEN "ValueError"
    ELSE IF v < t + Minute THEN "ValueError"
    ELSE "ok"

\* ReminderRequest.validate_reminder_time; t is datetime.now()
validate_reminder_time(v, t) ==
    IF v <= t THEN "ValueError"
    ELSE IF v <= t + Minute THEN "ValueError"
    ELSE "ok"

\* The fields of an SOSRequest whose validation fails
SOSRequestErrors(p) ==
    {f \in {"user_id", "emergency_contacts", "gps_location", "vital_info"} :
        CASE f = "user_id" -> validate_user_id(p.user_id) # "ok"
          [] f = "emergency_contacts" ->
                 validate_emergency_contacts(p.emergency_contacts) # "ok"
          [] f = "gps_location" -> validate_gps_location(p.gps_location) # "ok"
          [] f = "vital_info" ->
                 validate_blood_pressure(p.vital_info.blood_pressure) # "ok"}

\* The fields of a ReminderRequest whose validation fails at time t
ReminderRequestErrors(p, t) ==
    {f \in {"user_id", "reminder_type", "reminder_text", "reminder_time"} :
        CASE f = "user_id" -> validate_user_id(p.user_id) # "ok"
          [] f = "reminder_type" -> validate_reminder_type(p.reminder_type) # "ok"
          [] f = "reminder_text" -> validate_reminder_text(p.reminder_text) # "ok"
          [] f = "reminder_time" -> validate_reminder_time(p.reminder_time, t) # "ok"}

-----------------------------------------------------------------------------
(* Request payloads the model submits *)

John == <<"J", "o", "h", "n", ":", "1", "2", "3", "4", "5", "6", "7", "8", "9", "0">>
Jane == <<"J", "a", "n", "e", ":", "9", "8", "7", "6", "5", "4", "3", "2", "1", "0">>

\* contact strings the validator rejects, and ":7", which it accepts
OddContacts ==
    {<<"J", "o", "h", "n">>, <<"J", "o", "h", "n", ":">>, <<"J", ":", "1", ":", "2">>,
     <<"J", "o", "h", "n", ":", "1", "2", "a">>}

Roster == [n \in 1..MaxContacts |-> IF n % 2 = 1 THEN John ELSE Jane]

ContactLists ==
    {SubSeq(Roster, 1, n) : n \in 0..MaxContacts}
      \cup {Append(SubSeq(Roster, 1, n), c) : n \in {0, MaxContacts - 1}, c \in OddContacts}
      \cup {<<c>> \o SubSeq(Roster, 1, 1) : c \in OddContacts}

GpsExample == <<"4", "0", ".", "7", "1", "2", "7", "7", "6", ",", " ", "-", "7", "4", ".", "0", "0", "5", "9", "7", "4">>
GpsCorner == <<"9", "0", ",", "-", "1", "8", "0", ".", "0">>

GpsInputs ==
    {GpsExample, GpsCorner,
     <<"9", "1", ",", "0">>, <<"0", ",", "1", "8", "1">>, <<"-", "9", "0", ".", "5", ",", "0">>,
     <<"0", ",", "-", "1", "8", "0", ".", "0", "1">>, <<"a", "b", "c", ",", "0">>, <<"4", "0", ".", "7">>,
     <<"1", ",", "2", ",", "3">>, <<"1", ".", "2", ".", "3", ",", "0">>, <<>>}

BpExample == <<"1", "2", "0", "/", "8", "0">>

BpNamed ==
    {BpExample, <<"a", "b", "c", "/", "8", "0">>, <<"-", "5", "/", "8", "0">>, <<"0", "/", "8", "0">>,
     <<"1", "2", "0">>, <<"1", "2", "0", "/">>, <<"1", "2", "0", "/", "8", "0", "/", "7", "0">>}

Vital(bp) == [spo2 |-> 95, blood_pressure |-> bp, pulse |-> 75]

SosBase ==
    [user_id |-> 1, emergency_button_pressed |-> TRUE, emergency_contacts |-> Roster,
     gps_location |-> GpsExample, vital_info |-> Vital(BpExample)]

SosPayloads ==
    {[SosBase EXCEPT !.emergency_contacts = c] : c \in ContactLists}
      \cup {[SosBase EXCEPT !.gps_location = g, !.emergency_button_pressed = FALSE] :
               g \in GpsInputs \ {GpsExample}}
      \cup {[SosBase EXCEPT !.vital_info = Vital(b)] : b \in BpNamed}
      \cup {[SosBase EXCEPT !.user_id = u] : u \in {0, 0 - 1}}
      \cup {[SosBase EXCEPT !.user_id = 0, !.gps_location = <<>>]}

Words(n) == [i \in 1..(2 * n - 1) |-> IF i % 2 = 1 THEN "w" ELSE " "]

TextShort == <<"T", "a", "k", "e", " ", "p", "i", "l", "l", "s">>
TextSpaced == <<" ", " ", "w", "a", "l", "k", " ", " ", " ", "t", "h", "e", " ", "d", "o", "g", " ">>

TimeOffsets == (0 - 1)..(2 * Minute)

RemBase(t) ==
    [user_id |-> 1, reminder_type |-> "Medication", reminder_text |-> TextShort,
     reminder_time |-> t + 2 * Minute]

\* the reminder payloads submitted when the clock reads t
ReminderPayloads(t) ==
    {[RemBase(t) EXCEPT !.reminder_time = t + d] : d \in TimeOffsets}
      \cup {[RemBase(t) EXCEPT !.reminder_type = "Daily Tasks",
                               !.reminder_text = Words(max_words)],
            [RemBase(t) EXCEPT !.reminder_type = "Doctor Appointments",
                               !.reminder_text = TextSpaced],
            [RemBase(t) EXCEPT !.reminder_type = "Other"],
            [RemBase(t) EXCEPT !.reminder_text = Words(max_words + 1)],
            [RemBase(t) EXCEPT !.user_id = 0],
            [RemBase(t) EXCEPT !.user_id = 0, !.reminder_time = t]}

PageArgs == 0..MaxPage

Outcomes == {"sent", "HTTPError", "Timeout", "ConnectionError"}

\* blood-pressure strings of at most MaxBpLen characters, and the named ones
BpAlphabet == {"0", "1", "/", "-", "a"}

BpInputs ==
    UNION {[1..n -> BpAlphabet] : n \in 0..MaxBpLen} \cup BpNamed

-----------------------------------------------------------------------------
(* Storage *)

NoReq == [kind |-> "none", payload |-> <<>>, errors |-> {}]
NoInst == [id |-> 0]
NoResp == [status |-> 0]

\* datetime.isoformat() and the parsing of a stored reminder_time
isoformat(t) == ToStr(t)
fromisoformat(s) == ToInt(s)

\* a primary key that is not drawn from the stored rows
NextIdConstant(table) == 1

\* the INTEGER PRIMARY KEY given to a new row: one more than the largest stored
NextId(table) ==
    IF Len(table) = 0 THEN 1
    ELSE 1 + (CHOOSE m \in {table[i].id : i \in 1..Len(table)} :
                  \A i \in 1..Len(table) : table[i].id <= m)

\* the row of a table with a given primary key (db.refresh)
RowById(table, id) == table[CHOOSE i \in 1..Len(table) : table[i].id = id]

\* db.query(...).offset(skip).limit(limit).all(): rowid order; a negative
\* OFFSET counts as 0 and a negative LIMIT as no limit
Query(table, skip, limit) ==
    LET off  == IF skip < 0 THEN 0 ELSE skip
        rest == IF off >= Len(table) THEN <<>> ELSE SubSeq(table, off + 1, Len(table))
    IN  IF limit < 0 \/ limit >= Len(rest) THEN rest ELSE SubSeq(rest, 1, limit)

\* SOSAlert(...) built by create_sos_alert; id is None (0) until the flush
NewSOSAlert(sos) ==
    [id |-> 0, user_id |-> sos.user_id,
     emergency_button_pressed |-> sos.emergency_button_pressed,
     emergency_contacts |-> sos.emergency_contacts,
     gps_location |-> sos.gps_location,
     vital_info |-> sos.vital_info]

\* Reminder(...) built by create_reminder
NewReminder(reminder) ==
    [id |-> 0, user_id |-> reminder.user_id,
     reminder_type |-> reminder.reminder_type,
     reminder_text |-> reminder.reminder_text,
     reminder_time |-> isoformat(reminder.reminder_time)]

\* a stored alert read through the response model SOSRequest
AsSOSRequest(row) ==
    [user_id |-> row.user_id,
     emergency_button_pressed |-> row.emergency_button_pressed,
     emergency_contacts |-> row.emergency_contacts,
     gps_location |-> row.gps_location,
     vital_info |-> row.vital_info]

\* a stored reminder read through the response model ReminderRequest
AsReminderRequest(row) ==
    [user_id |-> row.user_id,
     reminder_type |-> row.reminder_type,
     reminder_text |-> row.reminder_text,
     reminder_time |-> fromisoformat(row.reminder_time)]

\* the JSON rendering of a validated ReminderRequest
ReminderJson(m) == [m EXCEPT !.reminder_time = isoformat(m.reminder_time)]

\* get_db without try/finally: the session stays open when the handler raises
get_db_exit_no_finally(status) == IF status = 500 THEN "open" ELSE "closed"

\* get_db after the yield: finally db.close(), whatever the request's outcome
get_db_exit(status) == "closed"

Room == Len(sos_alerts) + Len(reminders) < MaxRows

-----------------------------------------------------------------------------
(* Initial state *)

Init ==
    /\ now = StartTime
    /\ sos_alerts = <<>>
    /\ reminders = <<>>
    /\ pc = "idle"
    /\ req = NoReq
    /\ inst = NoInst
    /\ attempts = <<>>
    /\ resp = NoResp
    /\ db = "none"
    /\ bp_in = <<>>
    /\ bp_out = "unused"

\* time passes between requests
Tick ==
    /\ pc = "idle"
    /\ now < StartTime + MaxTicks
    /\ now' = now + 1
    /\ UNCHANGED <<sos_alerts, reminders, pc, req, inst, attempts, resp, db, bp_in, bp_out>>

-----------------------------------------------------------------------------
(* POST /sos/ *)

\* create_sos_alert entered without the validation of the payload
create_sos_alert_unvalidated(sos) ==
    /\ pc = "idle"
    /\ Room
    /\ db' = "open"
    /\ req' = [kind |-> "create_sos_alert", payload |-> sos,
               errors |-> SOSRequestErrors(sos)]
    /\ inst' = NewSOSAlert(sos)
    /\ pc' = "sos_commit"
    /\ UNCHANGED <<now, sos_alerts, reminders, attempts, resp, bp_in, bp_out>>

\* create_sos_alert calling send_sos_alert before the row is committed
create_sos_alert_notify_first(sos) ==
    /\ pc = "idle"
    /\ SOSRequestErrors(sos) = {}
    /\ Room
    /\ db' = "open"
    /\ req' = [kind |-> "create_sos_alert", payload |-> sos, errors |-> {}]
    /\ inst' = NewSOSAlert(sos)
    /\ pc' = "sos_notify"
    /\ UNCHANGED <<now, sos_alerts, reminders, attempts, resp, bp_in, bp_out>>

\* the validation result of each submitted SOS payload, computed once
SosErrorsOf == [p \in SosPayloads |-> SOSRequestErrors(p)]

\* the request arrives: get_db opens a session, the body is validated as an
\* SOSRequest (422 on failure, the session closed again), the handler builds
\* the SOSAlert and db.add()s it
create_sos_alert(sos) ==
    /\ pc = "idle"
    /\ LET errs == SosErrorsOf[sos] IN
       /\ errs = {} => Room
       /\ req' = [kind |-> "create_sos_alert", payload |-> sos, errors |-> errs]
       /\ IF errs # {}
          THEN /\ resp' = [status |-> 422, detail |-> errs]
               /\ inst' = inst
               /\ db' = get_db_exit(422)
               /\ pc' = "done"
          ELSE /\ resp' = resp
               /\ inst' = NewSOSAlert(sos)
               /\ db' = "open"
               /\ pc' = "sos_commit"
    /\ UNCHANGED <<now, sos_alerts, reminders, attempts, bp_in, bp_out>>

\* db.commit(): the row is written with a new primary key
sos_commit ==
    /\ pc = "sos_commit"
    /\ LET row == [inst EXCEPT !.id = NextId(sos_alerts)] IN
       /\ sos_alerts' = Append(sos_alerts, row)
       /\ inst' = row
    /\ pc' = "sos_refresh"
    /\ UNCHANGED <<now, reminders, req, attempts, resp, db, bp_in, bp_out>>

\* db.commit() raises: nothing is written, the error propagates
sos_commit_fails ==
    /\ pc = "sos_commit"
    /\ resp' = [status |-> 500]
    /\ db' = get_db_exit(500)
    /\ pc' = "done"
    /\ UNCHANGED <<now, sos_alerts, reminders, req, inst, attempts, bp_in, bp_out>>

\* db.refresh(sos_alert): the instance is reloaded from its row
sos_refresh ==
    /\ pc = "sos_refresh"
    /\ inst' = RowById(sos_alerts, inst.id)
    /\ pc' = "sos_notify"
    /\ UNCHANGED <<now, sos_alerts, reminders, req, attempts, resp, db, bp_in, bp_out>>

\* db.refresh() raises: the committed row stays, the error propagates
sos_refresh_fails ==
    /\ pc = "sos_refresh"
    /\ resp' = [status |-> 500]
    /\ db' = get_db_exit(500)
    /\ pc' = "done"
    /\ UNCHANGED <<now, sos_alerts, reminders, req, inst, attempts, bp_in, bp_out>>

\* one iteration of send_sos_alert's loop in which a failed post is not
\* caught and ends the request
send_sos_alert_aborting(outcome) ==
    /\ pc = "sos_notify"
    /\ Len(attempts) < Len(inst.emergency_contacts)
    /\ LET contact == inst.emergency_contacts[Len(attempts) + 1]
           parts   == Split(contact, ":")
       IN  /\ attempts' = Append(attempts,
                  [contact |-> contact, To |-> parts[2], sent |-> outcome = "sent"])
           /\ IF outcome = "sent"
              THEN pc' = pc /\ resp' = resp /\ db' = db
              ELSE pc' = "done" /\ resp' = [status |-> 500] /\ db' = get_db_exit(500)
    /\ UNCHANGED <<now, sos_alerts, reminders, req, inst, bp_in, bp_out>>

\* one iteration of send_sos_alert's loop: one requests.post to the contact's
\* phone part; raise_for_status, a timeout and a connection failure all raise
\* a RequestException, which is caught and logged.  A contact with no second
\* part raises IndexError, which is not caught.
send_sos_alert(outcome) ==
    /\ pc = "sos_notify"
    /\ Len(attempts) < Len(inst.emergency_contacts)
    /\ LET contact == inst.emergency_contacts[Len(attempts) + 1]
           parts   == Split(contact, ":")
       IN  IF Len(parts) < 2
           THEN /\ resp' = [status |-> 500]
                /\ db' = get_db_exit(500)
                /\ pc' = "done"
                /\ attempts' = attempts
           ELSE /\ attempts' = Append(attempts,
                       [contact |-> contact, To |-> parts[2], sent |-> outcome = "sent"])
                /\ pc' = pc
                /\ db' = db
                /\ resp' = resp
    /\ UNCHANGED <<now, sos_alerts, reminders, req, inst, bp_in, bp_out>>

\* send_sos_alert returns after the last contact and the handler returns
create_sos_alert_return ==
    /\ pc = "sos_notify"
    /\ Len(attempts) = Len(inst.emergency_contacts)
    /\ resp' = [status |-> 200, message |-> "SOS alert created", body |-> inst]
    /\ db' = get_db_exit(200)
    /\ pc' = "done"
    /\ UNCHANGED <<now, sos_alerts, reminders, req, inst, attempts, bp_in, bp_out>>

-----------------------------------------------------------------------------
(* POST /reminders/ *)

\* the request arrives: session opened, body validated as a ReminderRequest
\* at the current time, the Reminder built and db.add()ed
create_reminder(reminder) ==
    /\ pc = "idle"
    /\ LET errs == ReminderRequestErrors(reminder, now) IN
       /\ errs = {} => Room
       /\ req' = [kind |-> "create_reminder", payload |-> reminder, errors |-> errs]
       /\ IF errs # {}
          THEN /\ resp' = [status |-> 422, detail |-> errs]
               /\ inst' = inst
               /\ db' = get_db_exit(422)
               /\ pc' = "done"
          ELSE /\ resp' = resp
               /\ inst' = NewReminder(reminder)
               /\ db' = "open"
               /\ pc' = "rem_commit"
    /\ UNCHANGED <<now, sos_alerts, reminders, attempts, bp_in, bp_out>>

\* db.commit()
rem_commit ==
    /\ pc = "rem_commit"
    /\ LET row == [inst EXCEPT !.id = NextId(reminders)] IN
       /\ reminders' = Append(reminders, row)
       /\ inst' = row
    /\ pc' = "rem_refresh"
    /\ UNCHANGED <<now, sos_alerts, req, attempts, resp, db, bp_in, bp_out>>

rem_commit_fails ==
    /\ pc = "rem_commit"
    /\ resp' = [status |-> 500]
    /\ db' = get_db_exit(500)
    /\ pc' = "done"
    /\ UNCHANGED <<now, sos_alerts, reminders, req, inst, attempts, bp_in, bp_out>>

\* db.refresh(reminder_instance) and the handler's return
rem_refresh ==
    /\ pc = "rem_refresh"
    /\ inst' = RowById(reminders, inst.id)
    /\ resp' = [status |-> 200, message |-> "Reminder created", body |-> inst']
    /\ db' = get_db_exit(200)
    /\ pc' = "done"
    /\ UNCHANGED <<now, sos_alerts, reminders, req, attempts, bp_in, bp_out>>

rem_refresh_fails ==
    /\ pc = "rem_refresh"
    /\ resp' = [status |-> 500]
    /\ db' = get_db_exit(500)
    /\ pc' = "done"
    /\ UNCHANGED <<now, sos_alerts, reminders, req, inst, attempts, bp_in, bp_out>>

-----------------------------------------------------------------------------
(* GET endpoints *)

read_root ==
    /\ pc = "idle"
    /\ req' = [kind |-> "read_root", payload |-> <<>>, errors |-> {}]
    /\ resp' = [status |-> 200, message |-> "Person Engagement App API is running"]
    /\ pc' = "done"
    /\ UNCHANGED <<now, sos_alerts, reminders, inst, attempts, db, bp_in, bp_out>>

say_hello(name) ==
    /\ pc = "idle"
    /\ req' = [kind |-> "say_hello", payload |-> name, errors |-> {}]
    /\ resp' = [status |-> 200, message |-> <<"Hello, ", name>>]
    /\ pc' = "done"
    /\ UNCHANGED <<now, sos_alerts, reminders, inst, attempts, db, bp_in, bp_out>>

\* GET /sos/: the queried rows are validated through List[SOSRequest]; a row
\* that fails a validator makes the response a server error
read_sos_alerts(skip, limit) ==
    /\ pc = "idle"
    /\ req' = [kind |-> "read_sos_alerts",
               payload |-> [skip |-> skip, limit |-> limit], errors |-> {}]
    /\ LET alerts == Query(sos_alerts, skip, limit)
           models == [i \in 1..Len(alerts) |-> AsSOSRequest(alerts[i])]
       IN  resp' = IF \E i \in 1..Len(models) : SOSRequestErrors(models[i]) # {}
                   THEN [status |-> 500]
                   ELSE [status |-> 200, body |-> models]
    /\ db' = get_db_exit(resp'.status)
    /\ pc' = "done"
    /\ UNCHANGED <<now, sos_alerts, reminders, inst, attempts, bp_in, bp_out>>

\* GET /reminders/: the queried rows are validated through
\* List[ReminderRequest], whose reminder_time validator reads the clock
read_reminders(skip, limit) ==
    /\ pc = "idle"
    /\ req' = [kind |-> "read_reminders",
               payload |-> [skip |-> skip, limit |-> limit], errors |-> {}]
    /\ LET rows   == Query(reminders, skip, limit)
           models == [i \in 1..Len(rows) |-> AsReminderRequest(rows[i])]
       IN  resp' = IF \E i \in 1..Len(models) : ReminderRequestErrors(models[i], now) # {}
                   THEN [status |-> 500]
                   ELSE [status |-> 200,
                         body |-> [i \in 1..Len(models) |-> ReminderJson(models[i])]]
    /\ db' = get_db_exit(resp'.status)
    /\ pc' = "done"
    /\ UNCHANGED <<now, sos_alerts, reminders, inst, attempts, bp_in, bp_out>>

-----------------------------------------------------------------------------
(* Completion *)

\* the response leaves and the handler's locals are dropped
request_done ==
    /\ pc = "done"
    /\ pc' = "idle"
    /\ req' = NoReq
    /\ inst' = NoInst
    /\ attempts' = <<>>
    /\ resp' = NoResp
    /\ UNCHANGED <<now, sos_alerts, reminders, db, bp_in, bp_out>>

Next ==
    \/ Tick
    \/ \E sos \in SosPayloads : create_sos_alert(sos)
    \/ sos_commit
    \/ sos_commit_fails
    \/ sos_refresh
    \/ sos_refresh_fails
    \/ \E outcome \in Outcomes : send_sos_alert(outcome)
    \/ create_sos_alert_return
    \/ \E reminder \in ReminderPayloads(now) : create_reminder(reminder)
    \/ rem_commit
    \/ rem_commit_fails
    \/ rem_refresh
    \/ rem_refresh_fails
    \/ read_root
    \/ \E name \in {"World"} : say_hello(name)
    \/ \E skip \in PageArgs, limit \in PageArgs : read_sos_alerts(skip, limit)
    \/ \E skip \in PageArgs, limit \in PageArgs : read_reminders(skip, limit)
    \/ request_done

Spec == Init /\ [][Next]_vars

-----------------------------------------------------------------------------
(* The blood-pressure validator applied to every bounded input *)

InitBP ==
    /\ now = StartTime
    /\ sos_alerts = <<>>
    /\ reminders = <<>>
    /\ pc = "idle"
    /\ req = NoReq
    /\ inst = NoInst
    /\ attempts = <<>>
    /\ resp = NoResp
    /\ db = "none"
    /\ bp_in \in BpInputs
    /\ bp_out = "pending"

\* VitalInfo(blood_pressure=bp_in) runs the validator
VitalInfo ==
    /\ bp_out = "pending"
    /\ bp_out' = validate_blood_pressure(bp_in)
    /\ UNCHANGED <<now, sos_alerts, reminders, pc, req, inst, attempts, resp, db, bp_in>>

NextBP == VitalInfo

SpecBP == InitBP /\ [][NextBP]_vars

-----------------------------------------------------------------------------
(* Properties *)

InFlight == pc \notin {"idle", "done"}

PostKinds == {"create_sos_alert", "create_reminder"}
GetKinds == {"read_root", "say_hello", "read_sos_alerts", "read_reminders"}
DbKinds == {"create_sos_alert", "create_reminder", "read_sos_alerts", "read_reminders"}

AfterColon(c) ==
    LET k == CHOOSE i \in 1..Len(c) : c[i] = ":" /\ \A j \in 1..(i - 1) : c[j] # ":"
    IN  SubSeq(c, k + 1, Len(c))

\* C2: while and after send_sos_alert runs, the messages attempted are one
\* per contact, in list order, each to the contact's phone part; once the
\* loop has been entered the request ends with the 'SOS alert created'
\* response and with every contact attempted exactly once, whichever
\* attempts failed.
C2_OneAttemptPerContact ==
    (req.kind = "create_sos_alert" /\ req.errors = {}) =>
        LET contacts == req.payload.emergency_contacts IN
        /\ Len(attempts) <= Len(contacts)
        /\ \A i \in 1..Len(attempts) :
               /\ attempts[i].contact = contacts[i]
               /\ attempts[i].To = AfterColon(contacts[i])
        /\ (pc = "done" /\ (Len(attempts) > 0 \/ resp.status = 200)) =>
               /\ resp.status = 200
               /\ resp.message = "SOS alert created"
               /\ Len(attempts) = Len(contacts)

\* a request with two contacts has completed with both attempts failed
C2_Witness ==
    /\ pc = "done"
    /\ req.kind = "create_sos_alert"
    /\ Len(attempts) = 2
    /\ \A i \in 1..Len(attempts) : ~attempts[i].sent
    /\ resp.status = 200

\* the alert of the request being handled is a stored row
Committed ==
    \E i \in 1..Len(sos_alerts) :
        /\ sos_alerts[i] = inst
        /\ inst.id > 0
        /\ AsSOSRequest(sos_alerts[i]) = req.payload

\* C3: in a POST /sos/ request no message is attempted before the row is
\* committed, the 'created' response is produced only after every contact
\* has been attempted, and the row is in storage during and after the
\* notification whatever the outcomes.
C3_PersistNotifyRespond ==
    (req.kind = "create_sos_alert" /\ req.errors = {}) =>
        /\ pc \in {"sos_commit", "sos_refresh"} => attempts = <<>>
        /\ (pc = "sos_notify" \/ Len(attempts) > 0) => Committed
        /\ (pc = "done" /\ resp.status = 200) =>
               /\ Committed
               /\ Len(attempts) = Len(inst.emergency_contacts)

\* the response is being produced after a failed and a successful attempt
C3_Witness ==
    /\ pc = "done"
    /\ req.kind = "create_sos_alert"
    /\ resp.status = 200
    /\ Len(attempts) = 2
    /\ ~attempts[1].sent
    /\ attempts[2].sent
    /\ Committed

\* rows skip+1 .. min(skip+limit, N) of a table
Window(table, skip, limit) ==
    LET hi == IF skip + limit < Len(table) THEN skip + limit ELSE Len(table)
    IN  [i \in 1..(IF hi > skip THEN hi - skip ELSE 0) |-> table[skip + i]]

\* the client's view of a stored reminder
ReminderView(row) ==
    [user_id |-> row.user_id, reminder_type |-> row.reminder_type,
     reminder_text |-> row.reminder_text, reminder_time |-> row.reminder_time]

\* C4: a list request with skip >= 0 and limit >= 0 returns exactly the
\* stored rows at positions skip+1 .. min(skip+limit, N), in insertion order.
C4_ListReturnsWindow ==
    /\ (pc = "done" /\ req.kind = "read_sos_alerts") =>
           LET w == Window(sos_alerts, req.payload.skip, req.payload.limit) IN
           /\ resp.status = 200
           /\ resp.body = [i \in 1..Len(w) |-> AsSOSRequest(w[i])]
    /\ (pc = "done" /\ req.kind = "read_reminders") =>
           LET w == Window(reminders, req.payload.skip, req.payload.limit) IN
           /\ resp.status = 200
           /\ resp.body = [i \in 1..Len(w) |-> ReminderView(w[i])]

\* C5: a stored reminder can be read back at any later time: the list
\* request succeeds and returns every reminder of the window with the
\* values it was stored with, also once its reminder_time has been reached.
C5_StoredReminderReadable ==
    (pc = "done" /\ req.kind = "read_reminders") =>
        LET w == Window(reminders, req.payload.skip, req.payload.limit) IN
        /\ resp.status = 200
        /\ \A i \in 1..Len(w) :
               \E j \in 1..Len(resp.body) : resp.body[j] = ReminderView(w[i])

\* Lemma (what does hold of the list requests): GET /sos/ returns the
\* window; GET /reminders/ returns the window unless a reminder of the
\* window is one minute or less ahead of the clock, and fails exactly then.
ListWindowUnlessDue ==
    /\ (pc = "done" /\ req.kind = "read_sos_alerts") =>
           LET w == Window(sos_alerts, req.payload.skip, req.payload.limit) IN
           /\ resp.status = 200
           /\ resp.body = [i \in 1..Len(w) |-> AsSOSRequest(w[i])]
    /\ (pc = "done" /\ req.kind = "read_reminders") =>
           LET w   == Window(reminders, req.payload.skip, req.payload.limit)
               due == \E i \in 1..Len(w) : ToInt(w[i].reminder_time) <= now + Minute
           IN  IF due THEN resp.status = 500
               ELSE /\ resp.status = 200
                    /\ resp.body = [i \in 1..Len(w) |-> ReminderView(w[i])]

IsPrefix(s, t) == Len(s) <= Len(t) /\ SubSeq(t, 1, Len(s)) = s

DistinctIds(table) ==
    \A i, j \in 1..Len(table) :
        /\ table[i].id > 0
        /\ (i # j => table[i].id # table[j].id)

\* C6: every step keeps every stored row, unchanged and in place (rows are
\* only appended); the ids of a table are assigned and pairwise distinct;
\* the steps of a GET request leave both tables unchanged.
C6_AppendOnly ==
    /\ [](DistinctIds(sos_alerts) /\ DistinctIds(reminders))
    /\ [][/\ IsPrefix(sos_alerts, sos_alerts')
          /\ IsPrefix(reminders, reminders')
          /\ (req.kind \in GetKinds \/ req'.kind \in GetKinds) =>
                 (sos_alerts' = sos_alerts /\ reminders' = reminders)]_vars

\* a list request is answered while both tables hold rows
C6_Witness ==
    /\ pc = "done"
    /\ req.kind = "read_sos_alerts"
    /\ Len(sos_alerts) >= 1
    /\ Len(reminders) >= 1

\* a contact has exactly one ':' and a non-empty all-digit part after it
ContactWellFormed(c) ==
    /\ Cardinality({i \in 1..Len(c) : c[i] = ":"}) = 1
    /\ \E k \in 1..Len(c) :
           /\ c[k] = ":"
           /\ k < Len(c)
           /\ \A i \in (k + 1)..Len(c) : c[i] \in Digits

\* a GPS string is two decimal numbers, within [-90,90] and [-180,180]
GpsWellFormed(g) ==
    LET parts == Split(g, ",") IN
    /\ Len(parts) = 2
    /\ ParseFloat(parts[1]).ok /\ ParseFloat(parts[2]).ok
    /\ FloatBetween(0 - 90, ParseFloat(parts[1]), 90)
    /\ FloatBetween(0 - 180, ParseFloat(parts[2]), 180)

\* C7: every stored alert has a positive user id, well-formed contacts and
\* a GPS string within range, so that the notifier's phone part
\* (the second ':'-separated part) of each of its contacts exists.
C7_StoredAlertsValid ==
    \A i \in 1..Len(sos_alerts) :
        LET a == sos_alerts[i] IN
        /\ a.user_id > 0
        /\ \A n \in 1..Len(a.emergency_contacts) :
               /\ ContactWellFormed(a.emergency_contacts[n])
               /\ Len(Split(a.emergency_contacts[n], ":")) >= 2
        /\ GpsWellFormed(a.gps_location)

\* an alert with the contact 'John:1234567890' and the corner GPS is stored
C7_Witness ==
    \E i, j \in 1..Len(sos_alerts) :
        /\ Len(sos_alerts[i].emergency_contacts) >= 1
        /\ sos_alerts[i].emergency_contacts[1] = John
        /\ sos_alerts[j].gps_location = GpsCorner

\* C8: a session is open only while the handler of a request that acquired
\* one is running: once a request has completed (normally, rejected, or
\* with a storage failure) its session is closed, and no session is carried
\* from one request to the next.
C8_SessionClosed ==
    /\ pc \in {"idle", "done"} => db # "open"
    /\ InFlight => (req.kind \in DbKinds /\ db = "open")
    /\ (pc = "done" /\ req.kind \in DbKinds) => db = "closed"

\* a POST /sos/ request has ended with a storage failure after its commit
C8_Witness ==
    /\ pc = "done"
    /\ req.kind = "create_sos_alert"
    /\ resp.status = 500
    /\ inst.id > 0
    /\ db = "closed"

\* a bounded string is digits '/' digits with both numbers positive
BpWellFormed(s) ==
    /\ Cardinality({i \in 1..Len(s) : s[i] = "/"}) = 1
    /\ \E k \in 2..(Len(s) - 1) :
           /\ s[k] = "/"
           /\ \A i \in 1..Len(s) : i # k => s[i] \in Digits
           /\ \E i \in 1..(k - 1) : s[i] # "0"
           /\ \E i \in (k + 1)..Len(s) : s[i] # "0"

\* C9: the blood-pressure check accepts exactly the strings made of two
\* non-empty digit-only parts around a single '/', both denoting integers
\* > 0; every other string is rejected with a validation error (ValueError).
C9_BloodPressure ==
    bp_out # "pending" =>
        /\ bp_out \in {"ok", "ValueError"}
        /\ (bp_out = "ok") <=> BpWellFormed(bp_in)
        /\ bp_in = BpExample => bp_out = "ok"
        /\ bp_in \in BpNamed \ {BpExample} => bp_out = "ValueError"

\* '120/80/70' has been rejected with a validation error
C9_Witness ==
    /\ bp_in = <<"1", "2", "0", "/", "8", "0", "/", "7", "0">>
    /\ bp_out = "ValueError"

Rejected(r) == r.kind \in PostKinds /\ r.errors # {}

\* C10: every step of a rejected POST request leaves both tables unchanged
\* and issues no outbound message; a POST /reminders/ request never has an
\* outbound message.
C10_RejectedHasNoEffect ==
    /\ [](req.kind = "create_reminder" => attempts = <<>>)
    /\ [](Rejected(req) => (pc = "done" /\ resp.status = 422 /\ attempts = <<>>))
    /\ [][(Rejected(req) \/ Rejected(req')) =>
              /\ sos_alerts' = sos_alerts
              /\ reminders' = reminders
              /\ attempts' = <<>>]_vars

\* a POST /sos/ whose second contact is malformed has been rejected while
\* an alert is stored
C10_Witness ==
    /\ pc = "done"
    /\ req.kind = "create_sos_alert"
    /\ "emergency_contacts" \in req.errors
    /\ Len(req.payload.emergency_contacts) = 2
    /\ resp.status = 422
    /\ Len(sos_alerts) >= 1
    /\ attempts = <<>>

====
